---- MODULE Spec2Model ----
(***************************************************************************)
(* A model of tower_fs: the Root confinement middleware                    *)
(* (src/src/middleware/root.rs), the FileSystem service (src/src/lib.rs)   *)
(* and the HTTP helpers (src/src/http.rs): AsyncReadBody and               *)
(* build_and_validate_path.  try_parse_range only forwards to the          *)
(* http_range_header crate and has no state or logic of its own to model.  *)
(*                                                                         *)
(* A path string is modelled by the sequence of its '/'-separated          *)
(* segments: "" is <<"">>, "/" is <<"","">>, "/d/r" is <<"","d","r">>,     *)
(* "a//b/" is <<"a","","b","">>.  The file system maps the sequence of     *)
(* names of every existing entry to its node.                              *)
(***************************************************************************)
EXTENDS Integers, Sequences, FiniteSets, TLC

VARIABLES
    fs,             \* the file system: [path of names -> node]
    root,           \* Root.root / RootLayer.0 (a path string), or NoPath
    pc,             \* position of the caller: "new", "idle" or "done"
    req,            \* the Request handed to the outermost service
    forwarded,      \* the Request that reached the inner service, or NoReq
    resp,           \* the Result the caller got back
    calls,          \* number of FileSystem::call invocations so far
    handles,        \* the set of open file handles (descriptors)
    body,           \* the AsyncReadBody sessions: [session id -> record]
    requested_path, \* argument of build_and_validate_path
    path_result     \* its Result

vars == <<fs, root, pc, req, forwarded, resp, calls, handles, body,
          requested_path, path_result>>

----------------------------------------------------------------------------
(* Bounds *)

\* longest caller path, in segments, of a one-path request
MaxSegs == 3
\* longest caller path, in segments, of each field of a two-path request
MaxPairSegs == 1
\* symbolic links followed in one resolution before ELOOP
MaxHops == 3

----------------------------------------------------------------------------
(* std::path on unix *)

NoPath == <<"<none>">>

RECURSIVE DropLeading(_)
\* Components::trim_left: skip the separators and '.' in front of the body
DropLeading(segs) ==
    IF segs = <<>> THEN <<>>
    ELSE IF Head(segs) = "" \/ Head(segs) = "." THEN DropLeading(Tail(segs))
    ELSE segs

\* Path::is_absolute / has_root: the string starts with '/'
IsAbsolute(p) == Len(p) >= 2 /\ p[1] = ""

RECURSIVE BodyComponents(_)
\* the components after the front: '.' and empty segments are skipped
BodyComponents(segs) ==
    IF segs = <<>> THEN <<>>
    ELSE IF Head(segs) = "" \/ Head(segs) = "." THEN BodyComponents(Tail(segs))
    ELSE <<Head(segs)>> \o BodyComponents(Tail(segs))

\* Path::components: RootDir is "/", CurDir ".", ParentDir "..", Normal its name
Components(p) ==
    IF IsAbsolute(p) THEN <<"/">> \o BodyComponents(Tail(p))
    ELSE IF Head(p) = "." THEN <<".">> \o BodyComponents(Tail(p))
    ELSE BodyComponents(p)

IsPrefixSeq(s, t) == Len(s) <= Len(t) /\ SubSeq(t, 1, Len(s)) = s

\* Path::starts_with: whole components only
StartsWith(p, base) == IsPrefixSeq(Components(base), Components(p))

\* a strip_prefix that leaves the RootDir in place
StripRootKept(p) == p
\* subpath.strip_prefix("/").unwrap_or(subpath)
StripRoot(p) ==
    IF IsAbsolute(p)
    THEN LET rest == DropLeading(Tail(p)) IN IF rest = <<>> THEN <<"">> ELSE rest
    ELSE p

\* Path::join (PathBuf::push): an absolute argument replaces the base
Join(base, p) ==
    IF IsAbsolute(p) \/ base = <<"">> THEN p
    ELSE IF base[Len(base)] = "" THEN SubSeq(base, 1, Len(base) - 1) \o p
    ELSE base \o p

----------------------------------------------------------------------------
(* The file system and std::fs::canonicalize (realpath) *)

\* a node: its kind, a link's target text, a file's length, the read-only bit
Dir == [kind |-> "dir", target |-> <<>>, len |-> 0, ro |-> FALSE]
File(n) == [kind |-> "file", target |-> <<>>, len |-> n, ro |-> FALSE]
Link(t) == [kind |-> "link", target |-> t, len |-> 0, ro |-> FALSE]

\* The tree the services run on.  /e lies outside every configured root but
\* "/"; l entries are symbolic links: out of /d, back into it, and a loop.
InitFs ==
    ( <<>>              :> Dir
   @@ <<"e">>           :> Dir
   @@ <<"e", "r">>      :> File(2)
   @@ <<"e", "l">>      :> Link(<<"", "d", "s">>)
   @@ <<"d">>           :> Dir
   @@ <<"d", "r">>      :> File(3)
   @@ <<"d", "l">>      :> Link(<<"", "e">>)
   @@ <<"d", "s">>      :> Dir
   @@ <<"d", "s", "r">> :> File(1)
   @@ <<"d", "s", "e">> :> Link(<<"..", "..", "e">>)
   @@ <<"d", "s", "l">> :> Link(<<"l">>) )

Parent(names) == IF names = <<>> THEN <<>> ELSE SubSeq(names, 1, Len(names) - 1)

IoErr(kind) == [ok |-> FALSE, path |-> <<>>, err |-> kind]

RECURSIVE Resolve(_, _, _, _)
\* walk the segments left to right from directory cur, following every link
Resolve(f, cur, rest, hops) ==
    IF rest = <<>> THEN [ok |-> TRUE, path |-> cur, err |-> "none"]
    ELSE LET seg == Head(rest)
             tl  == Tail(rest)
             nxt == Append(cur, seg)
         IN  IF seg = "" \/ seg = "." THEN Resolve(f, cur, tl, hops)
             ELSE IF seg = ".." THEN Resolve(f, Parent(cur), tl, hops)
             ELSE IF nxt \notin DOMAIN f THEN IoErr("NotFound")
             ELSE IF f[nxt].kind = "link"
                  THEN IF hops = 0 THEN IoErr("FilesystemLoop")
                       ELSE Resolve(f, IF IsAbsolute(f[nxt].target) THEN <<>> ELSE cur,
                                    f[nxt].target \o tl, hops - 1)
             ELSE IF f[nxt].kind = "file" /\ tl # <<>> THEN IoErr("NotADirectory")
             ELSE Resolve(f, nxt, tl, hops)

\* the path string of an entry: "/" followed by its names joined by '/'
PathOf(names) == IF names = <<>> THEN <<"", "">> ELSE <<"">> \o names

\* the io::Result of canonicalize: the PathBuf of the entry found, or the error
Canonical(r) == IF r.ok THEN [r EXCEPT !.path = PathOf(r.path)] ELSE r

\* Path::canonicalize: the absolute, link-free path of an existing entry.
\* The process's working directory is "/".
Canonicalize(f, p) ==
    IF p = <<"">> THEN IoErr("NotFound")
    ELSE Canonical(Resolve(f, <<>>, p, MaxHops))

----------------------------------------------------------------------------
(* Request (src/src/lib.rs) and the Root middleware *)

NoReq == [op |-> "None"]

Modes == {"Read", "AppendExisting", "CreateOrOverwrite", "CreateOrAppend", "CreateNew"}

OnePathOps == {"CreateDir", "Exists", "FollowLink", "GetMetadata", "Open",
               "RemoveDir", "RemoveFile", "SetPermissions"}
FromToOps == {"Copy", "Rename"}
SrcDstOps == {"HardLink", "Symlink", "SymlinkDir", "SymlinkFile"}

\* the path fields of a request, in the order adjust_paths visits them
PathFields(r) ==
    IF r.op \in OnePathOps THEN <<r.path>>
    ELSE IF r.op \in FromToOps THEN <<r.from, r.to>>
    ELSE IF r.op \in SrcDstOps THEN <<r.src, r.dst>>
    ELSE <<>>

Ok(kind) == [ok |-> TRUE, kind |-> kind]
Err(kind) == [ok |-> FALSE, kind |-> kind]
NoResp == [ok |-> FALSE, kind |-> "<none>"]

\* .ok().filter(|path| path.starts_with(root)): Some(path) or None
OkAndUnder(c, rt) == IF c.ok /\ StartsWith(c.path, rt) THEN c.path ELSE NoPath

\* make_relative whose filter lets every canonical path through
MakeRelativeUnfiltered(rt, subpath) ==
    OkAndUnder(Canonicalize(fs, Join(rt, StripRoot(subpath))), <<"", "">>)
\* make_relative: the canonical path of root/subpath if it lies under root
MakeRelative(rt, subpath) ==
    OkAndUnder(Canonicalize(fs, Join(rt, StripRoot(subpath))), rt)

\* `?` on every field: None as soon as one field is None
Checked(r) ==
    IF \E i \in 1..Len(PathFields(r)) : PathFields(r)[i] = NoPath THEN NoReq ELSE r

\* Request::adjust_paths: every path field replaced by make_relative of it
AdjustPaths(r, rt) ==
    CASE r.op = "Copy" ->
            Checked([op |-> "Copy", from |-> MakeRelative(rt, r.from),
                     to |-> MakeRelative(rt, r.to)])
      [] r.op = "CreateDir" ->
            Checked([op |-> "CreateDir", path |-> MakeRelative(rt, r.path),
                     recursive |-> r.recursive])
      [] r.op = "Exists" ->
            Checked([op |-> "Exists", path |-> MakeRelative(rt, r.path)])
      [] r.op = "FollowLink" ->
            Checked([op |-> "FollowLink", path |-> MakeRelative(rt, r.path)])
      [] r.op = "GetMetadata" ->
            Checked([op |-> "GetMetadata", path |-> MakeRelative(rt, r.path),
                     follow_symlinks |-> r.follow_symlinks])
      [] r.op = "HardLink" ->
            Checked([op |-> "HardLink", src |-> MakeRelative(rt, r.src),
                     dst |-> MakeRelative(rt, r.dst)])
      [] r.op = "Open" ->
            Checked([op |-> "Open", mode |-> r.mode, path |-> MakeRelative(rt, r.path)])
      [] r.op = "RemoveDir" ->
            Checked([op |-> "RemoveDir", path |-> MakeRelative(rt, r.path),
                     recursive |-> r.recursive])
      [] r.op = "RemoveFile" ->
            Checked([op |-> "RemoveFile", path |-> MakeRelative(rt, r.path)])
      [] r.op = "Rename" ->
            Checked([op |-> "Rename", from |-> MakeRelative(rt, r.from),
                     to |-> MakeRelative(rt, r.to)])
      [] r.op = "SetPermissions" ->
            Checked([op |-> "SetPermissions", path |-> MakeRelative(rt, r.path),
                     perm |-> r.perm])
      [] r.op \in {"Symlink", "SymlinkDir", "SymlinkFile"} ->
            Checked([op |-> r.op, src |-> MakeRelative(rt, r.src),
                     dst |-> MakeRelative(rt, r.dst)])

\* what the inner service S may answer to a request it receives
InnerOutcomes == {Ok("Done"), Err("PermissionDenied")}

\* Root::call that reports the rejection as PermissionDenied
RootCallDenied(r) ==
    /\ req' = r
    /\ forwarded' = AdjustPaths(r, root)
    /\ resp' \in IF forwarded' # NoReq THEN InnerOutcomes ELSE {Err("PermissionDenied")}
\* Root::call: the adjusted request goes to the inner service, a request with
\* a field that is not confined is answered with ErrorKind::NotFound
RootCall(r) ==
    /\ req' = r
    /\ forwarded' = AdjustPaths(r, root)
    /\ resp' \in IF forwarded' # NoReq THEN InnerOutcomes ELSE {Err("NotFound")}

----------------------------------------------------------------------------
(* The caller of Root<S> *)

SegAlphabet == {"", ".", "..", "d", "e", "l", "r", "s", "n"}

PathsUpTo(n) == UNION {[1..k -> SegAlphabet] : k \in 1..n}
CallerPaths == PathsUpTo(MaxSegs)
PairPaths == PathsUpTo(MaxPairSegs)

\* the directories handed to RootLayer::new
RootArgs == {<<"", "d">>, <<"", "d", "s">>, <<"", "">>, <<"", "e", "l">>, <<"", "n">>}

OtherIdle ==
    /\ calls = 0
    /\ handles = {}
    /\ body = <<>>
    /\ requested_path = <<>>
    /\ path_result = NoResp

OtherUnchanged == UNCHANGED <<calls, handles, body, requested_path, path_result>>

Init ==
    /\ fs = InitFs
    /\ root = NoPath
    /\ pc = "new"
    /\ req = NoReq
    /\ forwarded = NoReq
    /\ resp = NoResp
    /\ OtherIdle

\* RootLayer::new(path).layer(inner): the root is canonicalized once
RootLayerNew ==
    /\ pc = "new"
    /\ \E p \in RootArgs :
          LET c == Canonicalize(fs, p)
          IN  /\ c.ok
              /\ root' = c.path
    /\ pc' = "idle"
    /\ UNCHANGED <<fs, req, forwarded, resp>>
    /\ OtherUnchanged

Called == pc' = "done" /\ UNCHANGED <<fs, root>> /\ OtherUnchanged

CallCopy ==
    /\ pc = "idle"
    /\ \E from \in PairPaths, to \in PairPaths :
          RootCall([op |-> "Copy", from |-> from, to |-> to])
    /\ Called

CallCreateDir ==
    /\ pc = "idle"
    /\ \E path \in CallerPaths, recursive \in BOOLEAN :
          RootCall([op |-> "CreateDir", path |-> path, recursive |-> recursive])
    /\ Called

CallExists ==
    /\ pc = "idle"
    /\ \E path \in CallerPaths : RootCall([op |-> "Exists", path |-> path])
    /\ Called

CallFollowLink ==
    /\ pc = "idle"
    /\ \E path \in CallerPaths : RootCall([op |-> "FollowLink", path |-> path])
    /\ Called

CallGetMetadata ==
    /\ pc = "idle"
    /\ \E path \in CallerPaths, follow \in BOOLEAN :
          RootCall([op |-> "GetMetadata", path |-> path, follow_symlinks |-> follow])
    /\ Called

CallHardLink ==
    /\ pc = "idle"
    /\ \E src \in PairPaths, dst \in PairPaths :
          RootCall([op |-> "HardLink", src |-> src, dst |-> dst])
    /\ Called

CallOpen ==
    /\ pc = "idle"
    /\ \E path \in CallerPaths, mode \in Modes :
          RootCall([op |-> "Open", mode |-> mode, path |-> path])
    /\ Called

CallRemoveDir ==
    /\ pc = "idle"
    /\ \E path \in CallerPaths, recursive \in BOOLEAN :
          RootCall([op |-> "RemoveDir", path |-> path, recursive |-> recursive])
    /\ Called

CallRemoveFile ==
    /\ pc = "idle"
    /\ \E path \in CallerPaths : RootCall([op |-> "RemoveFile", path |-> path])
    /\ Called

CallRename ==
    /\ pc = "idle"
    /\ \E from \in PairPaths, to \in PairPaths :
          RootCall([op |-> "Rename", from |-> from, to |-> to])
    /\ Called

CallSetPermissions ==
    /\ pc = "idle"
    /\ \E path \in CallerPaths, readonly \in BOOLEAN :
          RootCall([op |-> "SetPermissions", path |-> path, perm |-> readonly])
    /\ Called

CallSymlink ==
    /\ pc = "idle"
    /\ \E op \in {"Symlink", "SymlinkDir", "SymlinkFile"},
          src \in PairPaths, dst \in PairPaths :
          RootCall([op |-> op, src |-> src, dst |-> dst])
    /\ Called

\* the caller takes the response; the service is ready for the next request
Return ==
    /\ pc = "done"
    /\ pc' = "idle"
    /\ req' = NoReq
    /\ forwarded' = NoReq
    /\ resp' = NoResp
    /\ UNCHANGED <<fs, root>>
    /\ OtherUnchanged

Next ==
    \/ RootLayerNew
    \/ CallCopy
    \/ CallCreateDir
    \/ CallExists
    \/ CallFollowLink
    \/ CallGetMetadata
    \/ CallHardLink
    \/ CallOpen
    \/ CallRemoveDir
    \/ CallRemoveFile
    \/ CallRename
    \/ CallSetPermissions
    \/ CallSymlink
    \/ Return

Spec == Init /\ [][Next]_vars

----------------------------------------------------------------------------
(* The FileSystem service (src/src/lib.rs) over the same file system.      *)
(* Modelled arms of FileSystem::call: CreateDir, Exists, FollowLink,       *)
(* GetMetadata, Open, RemoveDir, RemoveFile, SetPermissions, SymLink.      *)

\* number of FileSystem::call invocations explored
MaxCalls == 2
\* deepest path, in names, handed to FileSystem::call
MaxFsDepth == 2

OkVal(kind, v) == [ok |-> TRUE, kind |-> kind, val |-> v]

RECURSIVE Walk(_, _, _, _, _)
\* the place a path names: like Resolve, but the last name may be missing,
\* and is followed when it is a link only if follow is set
Walk(f, cur, rest, hops, follow) ==
    IF rest = <<>> THEN [ok |-> TRUE, path |-> cur, err |-> "none"]
    ELSE LET seg == Head(rest)
             tl  == Tail(rest)
             nxt == Append(cur, seg)
         IN  IF seg = "" \/ seg = "." THEN Walk(f, cur, tl, hops, follow)
             ELSE IF seg = ".." THEN Walk(f, Parent(cur), tl, hops, follow)
             ELSE IF nxt \notin DOMAIN f
                  THEN IF tl = <<>> THEN [ok |-> TRUE, path |-> nxt, err |-> "none"]
                       ELSE IoErr("NotFound")
             ELSE IF f[nxt].kind = "link" /\ (tl # <<>> \/ follow)
                  THEN IF hops = 0 THEN IoErr("FilesystemLoop")
                       ELSE Walk(f, IF IsAbsolute(f[nxt].target) THEN <<>> ELSE cur,
                                 f[nxt].target \o tl, hops - 1, follow)
             ELSE IF f[nxt].kind = "file" /\ tl # <<>> THEN IoErr("NotADirectory")
             ELSE IF tl = <<>> THEN [ok |-> TRUE, path |-> nxt, err |-> "none"]
             ELSE Walk(f, nxt, tl, hops, follow)

Same(f) == [fs |-> f, resp |-> NoResp]
Fails(f, kind) == [fs |-> f, resp |-> Err(kind)]
Does(f, r) == [fs |-> f, resp |-> r]

\* the record std::fs::Metadata carries
MetadataOf(node) == [kind |-> node.kind, len |-> node.len, ro |-> node.ro]

\* the entries strictly below directory d
Below(f, d) == {q \in DOMAIN f : Len(q) > Len(d) /\ SubSeq(q, 1, Len(d)) = d}

Without(f, gone) == [q \in DOMAIN f \ gone |-> f[q]]

\* Mode::into_open_options
IntoOpenOptions(mode) ==
    [read       |-> mode = "Read",
     write      |-> mode \in {"CreateOrOverwrite", "CreateNew"},
     append     |-> mode \in {"AppendExisting", "CreateOrAppend"},
     truncate   |-> mode = "CreateOrOverwrite",
     create     |-> mode = "CreateOrAppend",
     create_new |-> mode = "CreateNew"]

\* OpenOptions::open: the flag rules of std, then open(2)
OpenWith(f, o, p) ==
    LET writing == o.write \/ o.append
        w == Walk(f, <<>>, p, MaxHops, ~o.create_new)
    IN  IF ~o.read /\ ~writing THEN Fails(f, "InvalidInput")
        ELSE IF ~writing /\ (o.truncate \/ o.create \/ o.create_new)
             THEN Fails(f, "InvalidInput")
        ELSE IF o.append /\ o.truncate /\ ~o.create_new THEN Fails(f, "InvalidInput")
        ELSE IF ~w.ok THEN Fails(f, w.err)
        ELSE IF w.path \in DOMAIN f
             THEN IF o.create_new THEN Fails(f, "AlreadyExists")
                  ELSE IF f[w.path].kind = "dir" /\ writing THEN Fails(f, "IsADirectory")
                  ELSE IF f[w.path].ro /\ writing THEN Fails(f, "PermissionDenied")
                  ELSE Does(IF o.truncate /\ f[w.path].kind = "file"
                            THEN [f EXCEPT ![w.path].len = 0] ELSE f,
                            OkVal("File", w.path))
        ELSE IF ~(o.create \/ o.create_new) THEN Fails(f, "NotFound")
        ELSE IF f[Parent(w.path)].ro THEN Fails(f, "PermissionDenied")
        ELSE Does(f @@ (w.path :> File(0)), OkVal("File", w.path))

\* fs::create_dir: mkdir(2)
CreateDirAt(f, p) ==
    LET w == Walk(f, <<>>, p, MaxHops, FALSE)
    IN  IF ~w.ok THEN Fails(f, w.err)
        ELSE IF w.path \in DOMAIN f THEN Fails(f, "AlreadyExists")
        ELSE IF f[Parent(w.path)].ro THEN Fails(f, "PermissionDenied")
        ELSE Does(f @@ (w.path :> Dir), Ok("Done"))

IsDirAt(f, p) ==
    LET r == Resolve(f, <<>>, p, MaxHops) IN r.ok /\ f[r.path].kind = "dir"

RECURSIVE CreateDirAll(_, _)
\* fs::create_dir_all: the directory and every missing parent
CreateDirAll(f, p) ==
    IF IsDirAt(f, p) THEN Does(f, Ok("Done"))
    ELSE LET once == CreateDirAt(f, p)
         IN  IF once.resp.ok THEN once
             ELSE IF once.resp.kind = "NotFound" /\ Len(p) > 2
                  THEN LET up == CreateDirAll(f, SubSeq(p, 1, Len(p) - 1))
                       IN  IF ~up.resp.ok THEN up
                           ELSE LET again == CreateDirAt(up.fs, p)
                                IN  IF again.resp.ok \/ ~IsDirAt(up.fs, p) THEN again
                                    ELSE Does(up.fs, Ok("Done"))
             ELSE once

\* fs::remove_file: unlink(2), the last name is not followed
RemoveFileAt(f, p) ==
    LET w == Walk(f, <<>>, p, MaxHops, FALSE)
    IN  IF ~w.ok THEN Fails(f, w.err)
        ELSE IF w.path \notin DOMAIN f THEN Fails(f, "NotFound")
        ELSE IF f[w.path].kind = "dir" THEN Fails(f, "IsADirectory")
        ELSE IF f[Parent(w.path)].ro THEN Fails(f, "PermissionDenied")
        ELSE Does(Without(f, {w.path}), Ok("Done"))

\* fs::remove_dir: rmdir(2) of an empty directory
RemoveDirAt(f, p) ==
    LET w == Walk(f, <<>>, p, MaxHops, FALSE)
    IN  IF ~w.ok THEN Fails(f, w.err)
        ELSE IF w.path \notin DOMAIN f THEN Fails(f, "NotFound")
        ELSE IF f[w.path].kind # "dir" THEN Fails(f, "NotADirectory")
        ELSE IF w.path = <<>> THEN Fails(f, "ResourceBusy")
        ELSE IF Below(f, w.path) # {} THEN Fails(f, "DirectoryNotEmpty")
        ELSE IF f[Parent(w.path)].ro THEN Fails(f, "PermissionDenied")
        ELSE Does(Without(f, {w.path}), Ok("Done"))

\* fs::remove_dir_all: a link is unlinked, a directory goes with all below it
RemoveDirAll(f, p) ==
    LET w == Walk(f, <<>>, p, MaxHops, FALSE)
    IN  IF ~w.ok THEN Fails(f, w.err)
        ELSE IF w.path \notin DOMAIN f THEN Fails(f, "NotFound")
        ELSE IF f[w.path].kind = "link" THEN RemoveFileAt(f, p)
        ELSE IF f[w.path].kind # "dir" THEN Fails(f, "NotADirectory")
        ELSE IF w.path = <<>> THEN Fails(f, "ResourceBusy")
        ELSE IF f[Parent(w.path)].ro
                \/ \E q \in Below(f, w.path) : f[Parent(q)].ro
             THEN Fails(f, "PermissionDenied")
        ELSE Does(Without(f, Below(f, w.path) \cup {w.path}), Ok("Done"))

\* fs::metadata (follow) and fs::symlink_metadata
MetadataAt(f, p, follow) ==
    LET w == Walk(f, <<>>, p, MaxHops, follow)
    IN  IF ~w.ok THEN Fails(f, w.err)
        ELSE IF w.path \notin DOMAIN f THEN Fails(f, "NotFound")
        ELSE Does(f, OkVal("Metadata", MetadataOf(f[w.path])))

\* fs::try_exists: NotFound is Ok(false), any other error is an error
TryExists(f, p) ==
    LET m == MetadataAt(f, p, TRUE)
    IN  IF m.resp.ok THEN Does(f, OkVal("Exists", TRUE))
        ELSE IF m.resp.kind = "NotFound" THEN Does(f, OkVal("Exists", FALSE))
        ELSE m

\* fs::read_link
ReadLink(f, p) ==
    LET w == Walk(f, <<>>, p, MaxHops, FALSE)
    IN  IF ~w.ok THEN Fails(f, w.err)
        ELSE IF w.path \notin DOMAIN f THEN Fails(f, "NotFound")
        ELSE IF f[w.path].kind # "link" THEN Fails(f, "InvalidInput")
        ELSE Does(f, OkVal("PointsTo", f[w.path].target))

\* fs::set_permissions: chmod(2) follows links
SetPermissionsAt(f, p, readonly) ==
    LET w == Walk(f, <<>>, p, MaxHops, TRUE)
    IN  IF ~w.ok THEN Fails(f, w.err)
        ELSE IF w.path \notin DOMAIN f THEN Fails(f, "NotFound")
        ELSE Does([f EXCEPT ![w.path].ro = readonly], Ok("Done"))

\* fs::symlink(src, dst): dst becomes a link whose text is src
SymlinkAt(f, src, dst) ==
    LET w == Walk(f, <<>>, dst, MaxHops, FALSE)
    IN  IF ~w.ok THEN Fails(f, w.err)
        ELSE IF w.path \in DOMAIN f THEN Fails(f, "AlreadyExists")
        ELSE IF f[Parent(w.path)].ro THEN Fails(f, "PermissionDenied")
        ELSE Does(f @@ (w.path :> Link(src)), Ok("Done"))

\* FileSystem::call
FileSystemCall(f, r) ==
    CASE r.op = "CreateDir" /\ r.recursive -> CreateDirAll(f, r.path)
      [] r.op = "CreateDir" /\ ~r.recursive -> CreateDirAt(f, r.path)
      [] r.op = "Exists" -> TryExists(f, r.path)
      [] r.op = "FollowLink" -> ReadLink(f, r.path)
      [] r.op = "GetMetadata" -> MetadataAt(f, r.path, r.follow_symlinks)
      [] r.op = "Open" -> OpenWith(f, IntoOpenOptions(r.mode), r.path)
      [] r.op = "RemoveDir" /\ r.recursive -> RemoveDirAll(f, r.path)
      [] r.op = "RemoveDir" /\ ~r.recursive -> RemoveDirAt(f, r.path)
      [] r.op = "RemoveFile" -> RemoveFileAt(f, r.path)
      [] r.op = "SetPermissions" -> SetPermissionsAt(f, r.path, r.perm)
      [] r.op = "SymLink" -> SymlinkAt(f, r.src, r.dst)

FsNames == {"d", "s", "r", "l", "n"}

\* the absolute paths handed to FileSystem::call
FsPaths == {<<"">> \o q : q \in UNION {[1..k -> FsNames] : k \in 1..MaxFsDepth}}

\* the link texts handed to SymLink
LinkTexts == {<<"r">>, <<"", "e">>, <<"n">>}

InitFs2 ==
    /\ fs = InitFs
    /\ root = NoPath
    /\ pc = "idle"
    /\ req = NoReq
    /\ forwarded = NoReq
    /\ resp = NoResp
    /\ OtherIdle

\* one call of the bare FileSystem service and the await of its future
FsDo(r) ==
    LET out == FileSystemCall(fs, r)
    IN  /\ fs' = out.fs
        /\ resp' = out.resp
        /\ req' = r
        /\ calls' = calls + 1
        /\ pc' = "done"
        /\ UNCHANGED <<root, forwarded, handles, body, requested_path, path_result>>

FsReady == pc = "idle" /\ calls < MaxCalls

FsCreateDir ==
    /\ FsReady
    /\ \E path \in FsPaths, recursive \in BOOLEAN :
          FsDo([op |-> "CreateDir", path |-> path, recursive |-> recursive])

FsExists ==
    /\ FsReady
    /\ \E path \in FsPaths : FsDo([op |-> "Exists", path |-> path])

FsFollowLink ==
    /\ FsReady
    /\ \E path \in FsPaths : FsDo([op |-> "FollowLink", path |-> path])

FsGetMetadata ==
    /\ FsReady
    /\ \E path \in FsPaths, follow \in BOOLEAN :
          FsDo([op |-> "GetMetadata", path |-> path, follow_symlinks |-> follow])

FsOpen ==
    /\ FsReady
    /\ \E path \in FsPaths, mode \in Modes :
          FsDo([op |-> "Open", mode |-> mode, path |-> path])

FsRemoveDir ==
    /\ FsReady
    /\ \E path \in FsPaths, recursive \in BOOLEAN :
          FsDo([op |-> "RemoveDir", path |-> path, recursive |-> recursive])

FsRemoveFile ==
    /\ FsReady
    /\ \E path \in FsPaths : FsDo([op |-> "RemoveFile", path |-> path])

FsSetPermissions ==
    /\ FsReady
    /\ \E path \in FsPaths, readonly \in BOOLEAN :
          FsDo([op |-> "SetPermissions", path |-> path, perm |-> readonly])

FsSymLink ==
    /\ FsReady
    /\ \E src \in LinkTexts, dst \in FsPaths :
          FsDo([op |-> "SymLink", src |-> src, dst |-> dst])

\* the caller drops the response (closing a returned file)
FsReturn ==
    /\ pc = "done"
    /\ pc' = "idle"
    /\ req' = NoReq
    /\ resp' = NoResp
    /\ UNCHANGED <<fs, root, forwarded, calls, handles, body, requested_path, path_result>>

NextFs ==
    \/ FsCreateDir
    \/ FsExists
    \/ FsFollowLink
    \/ FsGetMetadata
    \/ FsOpen
    \/ FsRemoveDir
    \/ FsRemoveFile
    \/ FsSetPermissions
    \/ FsSymLink
    \/ FsReturn

SpecFs == InitFs2 /\ [][NextFs]_vars

----------------------------------------------------------------------------
(* AsyncReadBody (src/src/http.rs): a ReaderStream over the source, behind *)
(* a Take when built by with_range.                                        *)

\* longest source, in bytes
MaxLen == 3
\* the read buffer capacities handed to with_capacity and with_range
Capacities == {1, 2}

SessionIds == {1, 2}

\* no AsyncReadBody in this slot
NoBody ==
    [phase |-> "none", reader |-> 0, cap |-> 0, spare |-> 0, len |-> 0, pos |-> 0,
     limited |-> FALSE, limit |-> 0, start |-> 0, end |-> 0,
     total |-> 0, errs |-> 0, last |-> "-"]

\* the descriptor open(2) hands out: the lowest one not in use
FreshHandle(hs) == CHOOSE h \in 1..(Cardinality(hs) + 1) : h \notin hs

\* dropping a source that stays open
ClosedLeaking(hs, h) == hs
\* dropping the source T (a File) closes its descriptor
Closed(hs, h) == hs \ {h}

\* with_range: let max_read_bytes = range.end() - range.start()
MaxReadBytes(start, end) == end - start

\* ReaderStream::poll_next on Err(err) keeping the reader
OnReadErrorKeepsReader(b) ==
    [b EXCEPT !.errs = b.errs + 1, !.last = "Err"]
\* ReaderStream::poll_next on Err(err): the reader is set to None, the item is
\* Some(Err(err))
OnReadError(b) ==
    [b EXCEPT !.reader = 0, !.errs = b.errs + 1, !.last = "Err"]

\* ReaderStream::poll_next on Ok(0): the reader is set to None, the item is None
OnReadEof(b) == [b EXCEPT !.reader = 0, !.last = "None"]

\* ReaderStream::poll_next on Ok(n): the n bytes read are split off as the chunk
OnReadData(b, n) ==
    [b EXCEPT !.pos = b.pos + n,
              !.limit = IF b.limited THEN b.limit - n ELSE b.limit,
              !.spare = (IF b.spare = 0 THEN b.cap ELSE b.spare) - n,
              !.total = b.total + n,
              !.last = "Data"]

\* the most one read may return: the spare room of the buffer (reserved to
\* capacity when none is left), the Take limit and what the source still has
Readable(b) ==
    LET room  == IF b.spare = 0 THEN b.cap ELSE b.spare
        avail == b.len - b.pos
        most  == IF room < avail THEN room ELSE avail
    IN  IF b.limited /\ b.limit < most THEN b.limit ELSE most

InitBody ==
    /\ fs = InitFs
    /\ root = NoPath
    /\ pc = "idle"
    /\ req = NoReq
    /\ forwarded = NoReq
    /\ resp = NoResp
    /\ calls = 0
    /\ handles = {}
    /\ body = [s \in SessionIds |-> NoBody]
    /\ requested_path = <<>>
    /\ path_result = NoResp

BodyUnchanged ==
    UNCHANGED <<fs, root, pc, req, forwarded, calls, requested_path, path_result>>

\* the Result of the last poll_trailers call
Returned(r) == resp' = r

\* AsyncReadBody::with_capacity(read, capacity) on a freshly opened source
WithCapacity(s) ==
    /\ body[s].phase = "none"
    /\ \E len \in 1..MaxLen, cap \in Capacities :
          body' = [body EXCEPT ![s] =
                [NoBody EXCEPT !.phase = "streaming", !.reader = FreshHandle(handles),
                               !.cap = cap, !.len = len, !.end = len - 1]]
    /\ handles' = handles \cup {FreshHandle(handles)}
    /\ UNCHANGED resp
    /\ BodyUnchanged

\* AsyncReadBody::with_range(read, capacity, range) up to the await of seek
WithRange(s) ==
    /\ body[s].phase = "none"
    /\ \E len \in 1..MaxLen, cap \in Capacities, start \in 0..MaxLen, end \in 0..MaxLen :
          /\ start <= end /\ end < len
          /\ body' = [body EXCEPT ![s] =
                [NoBody EXCEPT !.phase = "seeking", !.reader = FreshHandle(handles),
                               !.cap = cap, !.len = len, !.start = start, !.end = end]]
    /\ handles' = handles \cup {FreshHandle(handles)}
    /\ UNCHANGED resp
    /\ BodyUnchanged

\* the seek succeeded: the body is a ReaderStream over read.take(max_read_bytes)
SeekOk(s) ==
    /\ body[s].phase = "seeking"
    /\ body' = [body EXCEPT ![s] =
          [body[s] EXCEPT !.phase = "streaming", !.pos = body[s].start,
                          !.limited = TRUE,
                          !.limit = MaxReadBytes(body[s].start, body[s].end)]]
    /\ UNCHANGED handles
    /\ UNCHANGED resp
    /\ BodyUnchanged

\* the seek failed: `?` returns the error and read is dropped
SeekErr(s) ==
    /\ body[s].phase = "seeking"
    /\ body' = [body EXCEPT ![s] = NoBody]
    /\ handles' = Closed(handles, body[s].reader)
    /\ UNCHANGED resp
    /\ BodyUnchanged

\* poll_data = ReaderStream::poll_next, the read returning an error
PollDataErr(s) ==
    /\ body[s].phase = "streaming"
    /\ body[s].reader # 0
    /\ body' = [body EXCEPT ![s] = OnReadError(@)]
    /\ handles' = IF body'[s].reader = 0 THEN Closed(handles, body[s].reader) ELSE handles
    /\ UNCHANGED resp
    /\ BodyUnchanged

\* poll_data = ReaderStream::poll_next, the read returning n bytes, or none at
\* the end of the source or of the Take
PollDataOk(s) ==
    /\ body[s].phase = "streaming"
    /\ body[s].reader # 0
    /\ IF Readable(body[s]) = 0
       THEN /\ body' = [body EXCEPT ![s] = OnReadEof(@)]
            /\ handles' = Closed(handles, body[s].reader)
       ELSE /\ \E n \in 1..Readable(body[s]) :
                  body' = [body EXCEPT ![s] = OnReadData(@, n)]
            /\ UNCHANGED handles
    /\ UNCHANGED resp
    /\ BodyUnchanged

\* poll_data = ReaderStream::poll_next once the reader is None
PollDataDone(s) ==
    /\ body[s].phase = "streaming"
    /\ body[s].reader = 0
    /\ body' = [body EXCEPT ![s].last = "None"]
    /\ UNCHANGED handles
    /\ UNCHANGED resp
    /\ BodyUnchanged

\* poll_trailers: Poll::Ready(Ok(None)), whatever the state of the stream
PollTrailers(s) ==
    /\ body[s].phase = "streaming"
    /\ Returned(Ok("None"))
    /\ UNCHANGED <<body, handles>>
    /\ BodyUnchanged

\* the consumer drops the body, or the with_range future, where it stands
DropBody(s) ==
    /\ body[s].phase # "none"
    /\ body' = [body EXCEPT ![s] = NoBody]
    /\ handles' = IF body[s].reader # 0 THEN Closed(handles, body[s].reader) ELSE handles
    /\ UNCHANGED resp
    /\ BodyUnchanged

NextBody ==
    \E s \in SessionIds :
        \/ WithCapacity(s)
        \/ WithRange(s)
        \/ SeekOk(s)
        \/ SeekErr(s)
        \/ PollDataErr(s)
        \/ PollDataOk(s)
        \/ PollDataDone(s)
        \/ PollTrailers(s)
        \/ DropBody(s)

SpecBody == InitBody /\ [][NextBody]_vars

----------------------------------------------------------------------------
(* build_and_validate_path (src/src/http.rs).  The request string is a     *)
(* sequence of characters; decoding turns it into a sequence of bytes.     *)

\* longest request string, in characters
MaxReqLen == 6

ReqAlphabet == {"/", ".", "%", "2", "e", "F"}

\* the ASCII code of a character of the request
ByteOf(c) ==
    CASE c = "/" -> 47 [] c = "." -> 46 [] c = "%" -> 37
      [] c = "2" -> 50 [] c = "e" -> 101 [] c = "F" -> 70

\* the value of a hexadecimal digit, -1 for any other character
HexVal(c) ==
    CASE c = "2" -> 2 [] c = "e" -> 14 [] c = "F" -> 15 [] OTHER -> -1

RECURSIVE TrimStartSlashes(_)
\* requested_path.trim_start_matches('/')
TrimStartSlashes(str) ==
    IF str # <<>> /\ Head(str) = "/" THEN TrimStartSlashes(Tail(str)) ELSE str

RECURSIVE PercentDecode(_)
\* percent_decode: %XY with two hex digits is the byte XY, all else is kept
PercentDecode(str) ==
    IF str = <<>> THEN <<>>
    ELSE IF Head(str) = "%" /\ Len(str) >= 3 /\ HexVal(str[2]) >= 0 /\ HexVal(str[3]) >= 0
         THEN <<16 * HexVal(str[2]) + HexVal(str[3])>> \o PercentDecode(SubSeq(str, 4, Len(str)))
    ELSE <<ByteOf(Head(str))>> \o PercentDecode(Tail(str))

IsCont(b) == b >= 128 /\ b <= 191

RECURSIVE Utf8Valid(_)
\* decode_utf8: the well-formed byte sequences of UTF-8
Utf8Valid(bs) ==
    IF bs = <<>> THEN TRUE
    ELSE LET b == bs[1]
             n == Len(bs)
         IN  IF b < 128 THEN Utf8Valid(Tail(bs))
             ELSE IF b >= 194 /\ b <= 223
                  THEN n >= 2 /\ IsCont(bs[2]) /\ Utf8Valid(SubSeq(bs, 3, n))
             ELSE IF b >= 224 /\ b <= 239
                  THEN /\ n >= 3
                       /\ IsCont(bs[2]) /\ IsCont(bs[3])
                       /\ (b = 224 => bs[2] >= 160)
                       /\ (b = 237 => bs[2] <= 159)
                       /\ Utf8Valid(SubSeq(bs, 4, n))
             ELSE IF b >= 240 /\ b <= 244
                  THEN /\ n >= 4
                       /\ IsCont(bs[2]) /\ IsCont(bs[3]) /\ IsCont(bs[4])
                       /\ (b = 240 => bs[2] >= 144)
                       /\ (b = 244 => bs[2] <= 143)
                       /\ Utf8Valid(SubSeq(bs, 5, n))
             ELSE FALSE

RECURSIVE SplitSlash(_, _)
\* the segments between the '/' bytes; cur is the segment being read
SplitSlash(bs, cur) ==
    IF bs = <<>> THEN <<cur>>
    ELSE IF Head(bs) = 47 THEN <<cur>> \o SplitSlash(Tail(bs), <<>>)
    ELSE SplitSlash(Tail(bs), Append(cur, Head(bs)))

Comp(kind, name) == [kind |-> kind, name |-> name]

RECURSIVE BodyComps(_)
\* Components in the body of a path: empty segments and '.' are skipped
BodyComps(segs) ==
    IF segs = <<>> THEN <<>>
    ELSE IF Head(segs) = <<>> \/ Head(segs) = <<46>> THEN BodyComps(Tail(segs))
    ELSE IF Head(segs) = <<46, 46>>
         THEN <<Comp("ParentDir", Head(segs))>> \o BodyComps(Tail(segs))
    ELSE <<Comp("Normal", Head(segs))>> \o BodyComps(Tail(segs))

\* Path::new(bytes).components() on unix, which has no Prefix component
CompsOf(bs) ==
    LET segs == SplitSlash(bs, <<>>)
    IN  IF bs # <<>> /\ Head(bs) = 47
        THEN <<Comp("RootDir", <<>>)>> \o BodyComps(Tail(segs))
        ELSE IF Head(segs) = <<46>>
        THEN <<Comp("CurDir", <<>>)>> \o BodyComps(Tail(segs))
        ELSE BodyComps(segs)

PathOk(names) == [ok |-> TRUE, kind |-> "Ok", path |-> names]
PathErr(kind) == [ok |-> FALSE, kind |-> kind, path |-> <<>>]

\* the match on a component that lets ParentDir through like CurDir
PushComponentParentSkipped(acc, c) ==
    IF ~acc.ok THEN acc
    ELSE IF c.kind = "Normal"
         THEN IF \A i \in 1..Len(CompsOf(c.name)) : CompsOf(c.name)[i].kind = "Normal"
              THEN PathOk(Append(acc.path, c.name))
              ELSE PathErr("SubComponentNotNormal")
    ELSE IF c.kind \in {"CurDir", "ParentDir"} THEN acc
    ELSE PathErr("ComponentNotAllowed")
\* one turn of the loop over the components: the match on the component
PushComponent(acc, c) ==
    IF ~acc.ok THEN acc
    ELSE IF c.kind = "Normal"
         THEN IF \A i \in 1..Len(CompsOf(c.name)) : CompsOf(c.name)[i].kind = "Normal"
              THEN PathOk(Append(acc.path, c.name))
              ELSE PathErr("SubComponentNotNormal")
    ELSE IF c.kind = "CurDir" THEN acc
    ELSE PathErr("ComponentNotAllowed")

RECURSIVE PushAll(_, _)
\* the loop over path_decoded.components(), left at the first error
PushAll(acc, comps) ==
    IF comps = <<>> THEN acc
    ELSE PushAll(PushComponent(acc, Head(comps)), Tail(comps))

\* build_and_validate_path
BuildAndValidatePath(str) ==
    LET str_decoded == PercentDecode(TrimStartSlashes(str))
    IN  IF ~Utf8Valid(str_decoded) THEN PathErr("Utf8")
        ELSE PushAll(PathOk(<<>>), CompsOf(str_decoded))

NoPathResult == PathErr("<none>")

\* the request strings of up to n characters
RequestStrings(n) == UNION {[1..k -> ReqAlphabet] : k \in 0..n}

InitPath ==
    /\ fs = InitFs
    /\ root = NoPath
    /\ pc = "idle"
    /\ req = NoReq
    /\ forwarded = NoReq
    /\ resp = NoResp
    /\ calls = 0
    /\ handles = {}
    /\ body = <<>>
    /\ requested_path \in RequestStrings(MaxReqLen)
    /\ path_result = NoPathResult

\* a call of build_and_validate_path(requested_path)
Build ==
    /\ pc = "idle"
    /\ path_result' = BuildAndValidatePath(requested_path)
    /\ pc' = "done"
    /\ UNCHANGED <<fs, root, req, forwarded, resp, calls, handles, body, requested_path>>

NextPath == Build

SpecPath == InitPath /\ [][NextPath]_vars

----------------------------------------------------------------------------
(* Properties of the Root layer *)

\* the names of a canonical path: "/d/s" is <<"d","s">>, "/" is <<>>
Names(p) == IF p = <<"", "">> THEN <<>> ELSE Tail(p)

\* p is absolute, free of links, '.', '..' and empty segments, and exists
IsCanonical(p) ==
    /\ IsAbsolute(p)
    /\ Names(p) \in DOMAIN fs
    /\ \A i \in 1..Len(Names(p)) :
          /\ Names(p)[i] \notin {"", ".", ".."}
          /\ fs[SubSeq(Names(p), 1, i)].kind # "link"

\* root is a component-wise prefix of the canonical path p
UnderRoot(p) == IsPrefixSeq(Names(root), Names(p))

\* the caller's path read relative to root: the string root + "/" + p
UnderRootString(p) == root \o p

\* the confinement of caller path p fails: no canonical path, or one outside
ConfinementFails(p) ==
    LET c == Canonicalize(fs, UnderRootString(p))
    IN  ~c.ok \/ ~UnderRoot(c.path)

\* C1: whatever the root, the request variant and the caller's paths, the Root
\* layer either rejects the request (an error, nothing forwarded) or forwards
\* the same operation with every path field a canonical absolute path that
\* has root as a component-wise prefix.
C1_EveryForwardedPathUnderRoot ==
    pc = "done" =>
        IF forwarded = NoReq THEN ~resp.ok
        ELSE /\ forwarded.op = req.op
             /\ Len(PathFields(forwarded)) = Len(PathFields(req))
             /\ \A i \in 1..Len(PathFields(forwarded)) :
                   /\ IsCanonical(PathFields(forwarded)[i])
                   /\ UnderRoot(PathFields(forwarded)[i])

\* C1 witness: a two-path request is forwarded, another whose second field
\* escapes through a link or '..' having been rejected is covered by the same
\* invariant; here a forwarded one-path request whose path holds '..'.
C1_Witness ==
    /\ pc = "done"
    /\ req.op = "Open"
    /\ forwarded # NoReq
    /\ \E i \in 1..Len(req.path) : req.path[i] = ".."
    /\ root # <<"", "">>

\* C2: when the confinement of any path field fails (missing target, another
\* canonicalization error, or a canonical path outside root) the caller gets
\* Err(NotFound) and the inner service is not called, whichever field failed.
C2_RejectionIsNotFound ==
    (pc = "done" /\ \E i \in 1..Len(PathFields(req)) : ConfinementFails(PathFields(req)[i]))
        => (resp = Err("NotFound") /\ forwarded = NoReq)

\* C2 witness: a Rename whose first field is confined and whose second field
\* exists but lies outside root was answered NotFound.
C2_Witness ==
    /\ pc = "done"
    /\ req.op = "Rename"
    /\ ~ConfinementFails(req.from)
    /\ Canonicalize(fs, UnderRootString(req.to)).ok
    /\ ConfinementFails(req.to)
    /\ resp = Err("NotFound")

\* the request creates the entry named by its target field
IsCreation(r) ==
    \/ r.op = "CreateDir"
    \/ r.op = "Open" /\ r.mode \in {"CreateNew", "CreateOrAppend"}
    \/ r.op \in FromToOps \cup SrcDstOps

TargetIndex(r) == Len(PathFields(r))

\* p names a missing entry of an existing directory that is confined under root
MissingUnderConfinedParent(p) ==
    /\ p[Len(p)] \notin {"", ".", ".."}
    /\ LET c == Canonicalize(fs, UnderRootString(SubSeq(p, 1, Len(p) - 1)))
       IN  /\ c.ok
           /\ UnderRoot(c.path)
           /\ fs[Names(c.path)].kind = "dir"
           /\ Append(Names(c.path), p[Len(p)]) \notin DOMAIN fs

\* C6: a creation request whose target does not exist yet but whose parent
\* chain exists and is confined under root (its other path field, if any,
\* being confined) is forwarded to the inner service with the target under root.
C6_CreationUnderConfinedParentAccepted ==
    ( /\ pc = "done"
      /\ IsCreation(req)
      /\ MissingUnderConfinedParent(PathFields(req)[TargetIndex(req)])
      /\ \A i \in 1..(TargetIndex(req) - 1) : ~ConfinementFails(PathFields(req)[i]) )
        => ( /\ forwarded # NoReq
             /\ UnderRoot(PathFields(forwarded)[TargetIndex(req)]) )

\* C7: make_relative reads the caller's path relative to root: a leading '/'
\* changes nothing, the result is the canonical path of root + "/" + p when
\* that lies under root, and a path of only '/' and '.' yields root itself.
C7_LeadingRootMarkerStripped ==
    (pc = "done" /\ req.op \in OnePathOps) =>
        LET p == req.path
            c == Canonicalize(fs, UnderRootString(p))
        IN  /\ MakeRelative(root, <<"">> \o p) = MakeRelative(root, p)
            /\ MakeRelative(root, p) =
                  IF c.ok /\ UnderRoot(c.path) THEN c.path ELSE NoPath
            /\ (forwarded # NoReq => forwarded.path = MakeRelative(root, p))
            /\ (BodyComponents(p) = <<>> => MakeRelative(root, p) = root)

\* C7 witness: a path with a leading '/' was resolved to an entry below root.
C7_Witness ==
    /\ pc = "done"
    /\ req.op = "Exists"
    /\ IsAbsolute(req.path)
    /\ forwarded # NoReq
    /\ forwarded.path # root
    /\ root # <<"", "">>

----------------------------------------------------------------------------
(* Properties of the FileSystem service *)

\* p names a regular, writable file (itself, not through a link)
IsPlainFile(f, p) ==
    LET w == Walk(f, <<>>, p, MaxHops, FALSE)
    IN  w.ok /\ w.path \in DOMAIN f /\ f[w.path].kind = "file" /\ ~f[w.path].ro

\* p names nothing, in an existing writable directory
IsMissing(f, p) ==
    LET w == Walk(f, <<>>, p, MaxHops, FALSE)
    IN  w.ok /\ w.path \notin DOMAIN f /\ ~f[Parent(w.path)].ro

\* the entry p names
At(f, p) == Walk(f, <<>>, p, MaxHops, FALSE).path

\* C10: every Mode does what its name says on an existing and on a missing
\* file: Read and AppendExisting fail on a missing file and create nothing;
\* CreateOrOverwrite creates a missing file and empties an existing one;
\* CreateOrAppend creates a missing file and keeps an existing one's content;
\* CreateNew creates a missing file and fails on an existing one, leaving it
\* as it is.  Every success answers File.
C10_EachModeDoesWhatItsNameSays ==
    [][ (pc = "idle" /\ pc' = "done" /\ req'.op = "Open") =>
        LET p == req'.path
            m == req'.mode
            created == resp'.ok /\ fs' = fs @@ (At(fs, p) :> File(0))
            kept == resp'.ok /\ fs' = fs
            emptied == resp'.ok /\ fs' = [fs EXCEPT ![At(fs, p)].len = 0]
            refused == ~resp'.ok /\ fs' = fs
        IN  /\ (resp'.ok => resp'.kind = "File")
            /\ (IsMissing(fs, p) =>
                  CASE m \in {"Read", "AppendExisting"} -> refused
                    [] OTHER -> created)
            /\ (IsPlainFile(fs, p) =>
                  CASE m \in {"Read", "AppendExisting", "CreateOrAppend"} -> kept
                    [] m = "CreateOrOverwrite" -> emptied
                    [] m = "CreateNew" -> refused)
      ]_vars

----------------------------------------------------------------------------
(* Properties of AsyncReadBody *)

\* the stream of session s has delivered its terminal item
Ended(b) == b.last \in {"Err", "None"}

\* a with_range future or a body that has not ended
Live(b) == b.phase = "seeking" \/ (b.phase = "streaming" /\ ~Ended(b))

\* C3: a body built by with_range over a valid inclusive range (start, end),
\* polled to its end without an I/O error, has yielded exactly
\* end - start + 1 bytes, the bytes at offsets start..=end.
C3_RangeBodyYieldsWholeRange ==
    \A s \in SessionIds :
        (body[s].limited /\ body[s].last = "None" /\ body[s].errs = 0) =>
            /\ body[s].total = body[s].end - body[s].start + 1
            /\ body[s].pos = body[s].end + 1

\* C8: the chunk sequence is single-pass with a terminal element: chunks
\* already delivered stay delivered, a failing read yields exactly one Err
\* after them, once Err or None was delivered every later poll_data yields
\* None and reads nothing more, and poll_trailers answers Ok(None).
C8_TerminalItemThenNone ==
    [][ /\ \A s \in SessionIds :
             (body[s].phase = "streaming" /\ body'[s].phase = "streaming") =>
                 /\ body'[s].total >= body[s].total
                 /\ (body'[s].errs # body[s].errs =>
                        /\ body'[s].errs = 1
                        /\ body'[s].last = "Err"
                        /\ body'[s].total = body[s].total)
                 /\ (Ended(body[s]) =>
                        \/ body'[s] = body[s]
                        \/ body'[s] = [body[s] EXCEPT !.last = "None"])
        /\ (body' = body => resp' \in {resp, Ok("None")})
      ]_vars

\* C8 witness: after one chunk or more a read failed, and a later poll_data
\* returned None.
C8_Witness ==
    \E s \in SessionIds :
        body[s].total >= 1 /\ body[s].errs = 1 /\ body[s].last = "None"

\* C9: the open handles are exactly the sources of the live sessions, one
\* each and no two alike; a session that ended (normally or by a read
\* error), was dropped, or failed its seek holds none.
C9_HandlesAreThoseOfLiveSessions ==
    /\ handles = {body[s].reader : s \in {t \in SessionIds : Live(body[t])}}
    /\ Cardinality(handles) = Cardinality({t \in SessionIds : Live(body[t])})
    /\ \A s \in SessionIds : ~Live(body[s]) => body[s].reader = 0
    /\ \A s, t \in SessionIds :
          (s # t /\ Live(body[s]) /\ Live(body[t])) => body[s].reader # body[t].reader

\* C9 witness: one session ended with a read error after partial consumption
\* and the only open handle is the one of the other, live session.
C9_Witness ==
    \E s, t \in SessionIds :
        /\ s # t
        /\ body[s].last = "Err" /\ body[s].total >= 1
        /\ Live(body[t])
        /\ handles = {body[t].reader}

----------------------------------------------------------------------------
(* Properties of build_and_validate_path *)

\* what the function decodes: the request without its leading '/' characters
Decoded == PercentDecode(TrimStartSlashes(requested_path))

\* a segment of the decoded text is '..'
HasParentDir(bs) ==
    \E i \in 1..Len(SplitSlash(bs, <<>>)) : SplitSlash(bs, <<>>)[i] = <<46, 46>>

\* the decoded text starts with the root marker
HasRootMarker(bs) == bs # <<>> /\ bs[1] = 47

\* a plain name: not empty, not '.' or '..', and without a separator
IsPlainName(seg) ==
    /\ seg # <<>> /\ seg # <<46>> /\ seg # <<46, 46>>
    /\ \A i \in 1..Len(seg) : seg[i] # 47

====
